---------------------------- MODULE Spec2Model ----------------------------
(***************************************************************************)
(* heightmap2brs: the grid-compression engine of src/src/quad.rs.          *)
(*                                                                         *)
(* A QuadTree is a base layer of tiles plus feature layers; the quad pass  *)
(* and the run (line) pass merge tiles in place, tiles_to_bricks expands   *)
(* the live tiles into bricks and gen_opt_heightmap sequences the passes   *)
(* between progress checkpoints.                                           *)
(*                                                                         *)
(* Integers are u32 / i32 as in the source.  Release builds wrap on        *)
(* overflow; products that can leave the 31-bit range TLC computes in are  *)
(* formed on 16-bit limbs and kept as the 32-bit pattern read as an i32.   *)
(***************************************************************************)
EXTENDS Integers, Sequences, FiniteSets, TLC

(***************************************************************************)
(* Bounds of the model.                                                    *)
(***************************************************************************)
\* widest and tallest grid of the general input family
MaxW == 4
MaxH == 3
\* longest side of the uniform grids (long run-merge loops need room)
MaxSide == 7
\* quad_optimize_level is called directly with level in 0..MaxLevel
MaxLevel == 2
\* tallest sample of the per-tile emission specification
MaxTileHeight == 130

(***************************************************************************)
(* Program constants.                                                      *)
(***************************************************************************)
\* Option<usize>::None of Tile::parent
NoParent == -1
\* the size limit of a brick footprint (quad.rs:558, 570, 803)
SizeLimit == 500
\* the maximum thickness of one brick (quad.rs:706)
MaxBrickHeight == 250
\* the brick grid of options.snap (quad.rs:694)
SnapGrid == 4
\* minimum thickness unit of stud and of plain bricks (quad.rs:706, 708)
StudUnit == 5
PlainUnit == 2
\* pos_adjust of a layer emitted with a nonzero height_adjustment (quad.rs:662)
PosAdjust == 4
\* 2^16, the limb of the 32-bit arithmetic
Limb == 65536
HalfLimb == 32768

(***************************************************************************)
(* 32-bit arithmetic.                                                      *)
(***************************************************************************)
RECURSIVE Pow2(_)
Pow2(n) == IF n = 0 THEN 1 ELSE 2 * Pow2(n - 1)

Max(a, b) == IF a >= b THEN a ELSE b
Min(a, b) == IF a <= b THEN a ELSE b

\* the 32-bit pattern <<hi, lo>> read as an i32
FromLimbs(hi, lo) ==
    IF hi >= HalfLimb THEN (hi - Limb) * Limb + lo ELSE hi * Limb + lo

\* a * b modulo 2^32 for a small multiplier 0 <= a < 2^15 and any 32-bit b,
\* as the 32-bit pattern read as an i32 (wrapping_mul)
WrapMul(a, b) ==
    LET bhi == (b \div Limb) % Limb
        blo == b % Limb
        plo == a * blo
        hi  == (a * bhi + (plo \div Limb)) % Limb
    IN  FromLimbs(hi, plo % Limb)

\* a u32 pattern compared as an unsigned number against a small bound
U32Gt(p, bound) == p < 0 \/ p > bound

(***************************************************************************)
(* Colors: [u8; 4] RGBA.                                                   *)
(***************************************************************************)
Clear == <<0, 0, 0, 0>>
Red   == <<255, 0, 0, 255>>
Green == <<0, 255, 0, 255>>
Blue  == <<0, 0, 255, 255>>

(***************************************************************************)
(* Tiles.  A layer is a function from the array address 0..w*h-1 to Tile.  *)
(***************************************************************************)
Addr(x, y, height) == y + x * height

\* in-bounds 4-neighbours' samples (quad.rs:332-344)
NeighborHeights(hm, x, y, width, height) ==
    { hm[c] : c \in { d \in {<<x - 1, y>>, <<x + 1, y>>, <<x, y - 1>>, <<x, y + 1>>} :
                        d[1] >= 0 /\ d[1] < width /\ d[2] >= 0 /\ d[2] < height } }

\* Tile { index, center, neighbors, size, color, height, parent } (quad.rs:325-353)
NewTile(hm, x, y, width, height, color, h) ==
    [ index     |-> x + y * height,
      center    |-> <<x, y>>,
      neighbors |-> NeighborHeights(hm, x, y, width, height),
      size      |-> <<1, 1>>,
      color     |-> color,
      height    |-> h,
      parent    |-> NoParent ]

\* the cell pushed at array address a: x is the outer loop, y the inner one
CellOf(a, height) == <<a \div height, a % height>>

similar_quad(self, other) ==
    /\ self.size = other.size
    /\ self.color = other.color
    /\ self.height = other.height
    /\ self.parent = NoParent
    /\ other.parent = NoParent

\* a line similarity that does not compare sizes
similar_line_any_size(self, other) ==
    /\ self.color = other.color
    /\ self.height = other.height
    /\ self.parent = NoParent
    /\ other.parent = NoParent

similar_line(self, other) ==
    LET is_vertical   == self.center[1] = other.center[1]
        is_horizontal == self.center[2] = other.center[2]
    IN  /\ \/ is_vertical /\ self.size[1] = other.size[1]
           \/ is_horizontal /\ self.size[2] = other.size[2]
        /\ self.color = other.color
        /\ self.height = other.height
        /\ self.parent = NoParent
        /\ other.parent = NoParent


(***************************************************************************)
(* QuadTree::new (quad.rs:122-368).                                        *)
(***************************************************************************)
Cells(width, height) == (0 .. width - 1) \X (0 .. height - 1)

SetMax(S) == CHOOSE m \in S : \A n \in S : n <= m
SetMin(S) == CHOOSE m \in S : \A n \in S : m <= n

RECURSIVE SortedSeq(_)
SortedSeq(S) == IF S = {} THEN <<>> ELSE <<SetMin(S)>> \o SortedSeq(S \ {SetMin(S)})

\* all_heights: the scan inserts (height, color) with x outer and y inner, so
\* the color kept for a height is the one of the last cell scanned with it
all_heights(hm, cm, width, height) ==
    [ h \in { hm[c] : c \in Cells(width, height) } |->
        cm[CellOf(SetMax({ Addr(c[1], c[2], height) :
                             c \in { d \in Cells(width, height) : hm[d] = h } }), height)] ]

height_0_colors(hm, cm, width, height) ==
    { cm[c] : c \in { d \in Cells(width, height) : hm[d] = 0 } }

\* a filter that drops every height at or below the threshold
filtered_heights_above_only(hm, cm, width, height, threshold) ==
    LET all == all_heights(hm, cm, width, height)
    IN  IF threshold > 0
        THEN [ h \in { k \in DOMAIN all : k > threshold } |-> all[h] ]
        ELSE all

\* filtered_heights: every height above the threshold, and the highest height
\* at or below it (quad.rs:146-174)
filtered_heights(hm, cm, width, height, threshold) ==
    LET all   == all_heights(hm, cm, width, height)
        below == { h \in DOMAIN all : h <= threshold }
        keep  == { h \in DOMAIN all : h > threshold }
                   \cup (IF below = {} THEN {} ELSE {SetMax(below)})
    IN  IF threshold > 0 THEN [ h \in keep |-> all[h] ] ELSE all

\* the first layer, heights capped to the lowest retained one (quad.rs:189-234)
first_layer_tiles(hm, cm, width, height, filtered) ==
    LET min_filtered_height == SetMin(DOMAIN filtered)
    IN  [ a \in 0 .. width * height - 1 |->
            LET c == CellOf(a, height)
                original_height == hm[c]
                capped_height == IF original_height > min_filtered_height
                                 THEN min_filtered_height ELSE original_height
            IN  NewTile(hm, c[1], c[2], width, height,
                        IF capped_height = min_filtered_height
                        THEN filtered[min_filtered_height] ELSE cm[c],
                        capped_height) ]

\* a feature layer that takes only the cells sampled at its own elevation
layer_tiles_exact_only(hm, cm, width, height, filtered, zero_colors, layer_height) ==
    [ a \in 0 .. width * height - 1 |->
        LET c == CellOf(a, height)
        IN  NewTile(hm, c[1], c[2], width, height, filtered[layer_height],
                    IF hm[c] = layer_height THEN layer_height ELSE 0) ]

\* one feature layer (quad.rs:238-303)
layer_tiles(hm, cm, width, height, filtered, zero_colors, layer_height) ==
    LET layer_color == filtered[layer_height]
        is_lake_layer == layer_color \in zero_colors
    IN  [ a \in 0 .. width * height - 1 |->
            LET c == CellOf(a, height)
                original_height == hm[c]
                pixel_color == cm[c]
                tile_height ==
                    IF is_lake_layer
                    THEN IF pixel_color = layer_color /\ original_height = layer_height
                         THEN layer_height ELSE 0
                    ELSE IF original_height >= layer_height THEN layer_height ELSE 0
            IN  NewTile(hm, c[1], c[2], width, height, layer_color, tile_height) ]

\* the tiles of the un-layered tree (quad.rs:323-355)
plain_tiles(hm, cm, width, height) ==
    [ a \in 0 .. width * height - 1 |->
        LET c == CellOf(a, height)
        IN  NewTile(hm, c[1], c[2], width, height, cm[c], hm[c]) ]

\* Ok(QuadTree) of QuadTree::new; the dimension check is DimensionMismatch
QuadTree_new(hm, cm, width, height, threshold) ==
    LET filtered == filtered_heights(hm, cm, width, height, threshold)
        sorted   == SortedSeq(DOMAIN filtered)
        zero     == height_0_colors(hm, cm, width, height)
    IN  IF threshold > 0 /\ DOMAIN filtered # {}
        THEN [ tiles            |-> first_layer_tiles(hm, cm, width, height, filtered),
               height_layers    |-> [ i \in 1 .. Len(sorted) - 1 |->
                                        layer_tiles(hm, cm, width, height, filtered,
                                                    zero, sorted[i + 1]) ],
               sorted_heights   |-> sorted,
               height_0_colors  |-> zero,
               filtered_heights |-> filtered,
               width            |-> width,
               height           |-> height ]
        ELSE [ tiles            |-> plain_tiles(hm, cm, width, height),
               height_layers    |-> <<>>,
               sorted_heights   |-> <<>>,
               height_0_colors  |-> {},
               filtered_heights |-> <<>>,
               width            |-> width,
               height           |-> height ]

\* a size comparison that looks at the widths only
DimensionMismatch_widths_only(hsize, csize) == csize[1] # hsize[1]

\* colormap.size() != heightmap.size() (quad.rs:126)
DimensionMismatch(hsize, csize) == csize # hsize

(***************************************************************************)
(* Quad merge pass (quad.rs:88-107, 378-451).                              *)
(***************************************************************************)
\* a merge_quad that doubles the width only
merge_quad_widens_only(tiles, tl, tr, bl, br) ==
    [ tiles EXCEPT
        ![tl].size = <<tiles[tl].size[1] * 2, tiles[tl].size[2]>>,
        ![tl].neighbors = tiles[tl].neighbors \cup tiles[tr].neighbors
                            \cup tiles[bl].neighbors \cup tiles[br].neighbors,
        ![tr].parent = tiles[tl].index,
        ![bl].parent = tiles[tl].index,
        ![br].parent = tiles[tl].index ]

\* a merge_quad that leaves the bottom-right tile without a parent
merge_quad_keeps_bottom_right(tiles, tl, tr, bl, br) ==
    [ tiles EXCEPT
        ![tl].size = <<tiles[tl].size[1] * 2, tiles[tl].size[2] * 2>>,
        ![tr].parent = tiles[tl].index,
        ![bl].parent = tiles[tl].index ]

merge_quad(tiles, tl, tr, bl, br) ==
    [ tiles EXCEPT
        ![tl].size = <<tiles[tl].size[1] * 2, tiles[tl].size[2] * 2>>,
        ![tl].neighbors = tiles[tl].neighbors \cup tiles[tr].neighbors
                            \cup tiles[bl].neighbors \cup tiles[br].neighbors,
        ![tr].parent = tiles[tl].index,
        ![bl].parent = tiles[tl].index,
        ![br].parent = tiles[tl].index ]

\* (0..n).step_by(step) as a sequence
RECURSIVE StepFrom(_, _, _)
StepFrom(v, n, step) == IF v >= n THEN <<>> ELSE <<v>> \o StepFrom(v + step, n, step)

\* the anchors of one quad pass in scan order: x outer, y inner
RECURSIVE Anchors(_, _)
Anchors(xs, ys) ==
    IF xs = <<>> THEN <<>>
    ELSE [ j \in 1 .. Len(ys) |-> <<Head(xs), ys[j]>> ] \o Anchors(Tail(xs), ys)

\* the test of one 2x2 block (quad.rs:434-440)
quad_mergeable(tiles, tl, tr, bl, br, space) ==
    ~ ( \/ tiles[tl].size[1] # space
        \/ ~ similar_quad(tiles[tl], tiles[tr])
        \/ ~ similar_quad(tiles[tl], tiles[bl])
        \/ ~ similar_quad(tiles[tl], tiles[br]) )

RECURSIVE quad_scan(_, _, _, _, _)
quad_scan(acc, anchors, k, height, space) ==
    IF k > Len(anchors) THEN acc
    ELSE LET x  == anchors[k][1]
             y  == anchors[k][2]
             tl == Addr(x, y, height)
             bl == Addr(x, y + space, height)
             tr == Addr(x + space, y, height)
             br == Addr(x + space, y + space, height)
         IN  IF quad_mergeable(acc.tiles, tl, tr, bl, br, space)
             THEN quad_scan([ tiles |-> merge_quad(acc.tiles, tl, tr, bl, br),
                              count |-> acc.count + 3 ],
                            anchors, k + 1, height, space)
             ELSE quad_scan(acc, anchors, k + 1, height, space)

quad_optimize_tiles(tiles, width, height, space, step_amt) ==
    quad_scan([ tiles |-> tiles, count |-> 0 ],
              Anchors(StepFrom(0, width - space, step_amt),
                      StepFrom(0, height - space, step_amt)),
              1, height, space)

\* `width - space` and `height - space` are u32: when one wraps, the ranges
\* run to 2^32 and a slice index leaves the array (a panic), except that an
\* empty range on the other axis leaves nothing to index
quad_optimize_panics(width, height, space) ==
    \/ space > width /\ height # space
    \/ space <= width /\ space > height /\ width # space

(***************************************************************************)
(* Run merge pass (quad.rs:460-594).                                       *)
(***************************************************************************)
RECURSIVE SumSize(_, _, _, _)
SumSize(tiles, children, k, axis) ==
    IF k > Len(children) THEN 0
    ELSE tiles[children[k]].size[axis] + SumSize(tiles, children, k + 1, axis)

\* a run merge that leaves no size to the absorbed tiles
merge_line_zeroes_children(tiles, start_i, children) ==
    IF children = <<>> THEN tiles
    ELSE LET is_vertical == tiles[children[1]].center[1] = tiles[start_i].center[1]
             kids == { children[k] : k \in 1 .. Len(children) }
             new_size == SumSize(tiles, children, 1, IF is_vertical THEN 2 ELSE 1)
             new_neighbors == UNION { tiles[a].neighbors : a \in kids }
         IN  [ a \in DOMAIN tiles |->
                 IF a = start_i
                 THEN [ tiles[a] EXCEPT
                          !.neighbors = @ \cup new_neighbors,
                          !.size = IF is_vertical
                                   THEN <<@[1], @[2] + new_size>>
                                   ELSE <<@[1] + new_size, @[2]>> ]
                 ELSE IF a \in kids
                      THEN [ tiles[a] EXCEPT !.parent = start_i, !.size = <<0, 0>> ]
                 ELSE tiles[a] ]

merge_line(tiles, start_i, children) ==
    IF children = <<>> THEN tiles
    ELSE LET is_vertical == tiles[children[1]].center[1] = tiles[start_i].center[1]
             kids == { children[k] : k \in 1 .. Len(children) }
             new_size == SumSize(tiles, children, 1, IF is_vertical THEN 2 ELSE 1)
             new_neighbors == UNION { tiles[i].neighbors : i \in kids }
         IN  [ a \in DOMAIN tiles |->
                 IF a = start_i
                 THEN [ tiles[a] EXCEPT
                          !.neighbors = @ \cup new_neighbors,
                          !.size = IF is_vertical
                                   THEN <<@[1], @[2] + new_size>>
                                   ELSE <<@[1] + new_size, @[2]>> ]
                 ELSE IF a \in kids THEN [ tiles[a] EXCEPT !.parent = start_i ]
                 ELSE tiles[a] ]

\* a run limit of twice the size limit
too_large_doubled(total, tile_scale) ==
    U32Gt(WrapMul(total, tile_scale), 2 * SizeLimit)

\* `(total) * tile_scale > 500`, a wrapping u32 product (quad.rs:558, 570)
too_large(total, tile_scale) == U32Gt(WrapMul(total, tile_scale), SizeLimit)

\* the horizontal candidate run (quad.rs:554-563)
RECURSIVE horiz_run(_, _, _, _, _, _, _, _)
horiz_run(tiles, start, x, y, sx, acc, dims, tile_scale) ==
    IF x + sx < dims[1]
    THEN LET i == Addr(x + sx, y, dims[2])
             t == tiles[i]
         IN  IF too_large(sx + t.size[1], tile_scale)
                  \/ ~ similar_line(start, t)
             THEN acc
             ELSE horiz_run(tiles, start, x, y, sx + t.size[1], Append(acc, i),
                            dims, tile_scale)
    ELSE acc

\* the vertical candidate run (quad.rs:566-575)
RECURSIVE vert_run(_, _, _, _, _, _, _, _)
vert_run(tiles, start, x, y, sy, acc, dims, tile_scale) ==
    IF y + sy < dims[2]
    THEN LET i == Addr(x, y + sy, dims[2])
             t == tiles[i]
         IN  IF too_large(sy + t.size[2], tile_scale)
                  \/ ~ similar_line(start, t)
             THEN acc
             ELSE vert_run(tiles, start, x, y, sy + t.size[2], Append(acc, i),
                           dims, tile_scale)
    ELSE acc

\* a choice that takes the horizontal run on equal counts too
chosen_run_ties_horizontal(horiz_tiles, vert_tiles) ==
    IF Len(horiz_tiles) >= Len(vert_tiles) THEN horiz_tiles ELSE vert_tiles

\* the run committed from a start tile: the horizontal one only when longer
chosen_run(horiz_tiles, vert_tiles) ==
    IF Len(horiz_tiles) > Len(vert_tiles) THEN horiz_tiles ELSE vert_tiles

\* a count of the horizontal run only
run_count_horizontal_only(horiz_tiles, vert_tiles) == Len(horiz_tiles)

\* count += max(horiz_tiles.len(), vert_tiles.len()) (quad.rs:578)
run_count(horiz_tiles, vert_tiles) == Max(Len(horiz_tiles), Len(vert_tiles))

RECURSIVE line_scan(_, _, _, _)
line_scan(acc, a, dims, tile_scale) ==
    IF a >= dims[1] * dims[2] THEN acc
    ELSE LET x == CellOf(a, dims[2])[1]
             y == CellOf(a, dims[2])[2]
             start == acc.tiles[a]
         IN  IF start.parent # NoParent
             THEN line_scan(acc, a + 1, dims, tile_scale)
             ELSE LET horiz_tiles == horiz_run(acc.tiles, start, x, y, start.size[1],
                                               <<>>, dims, tile_scale)
                      vert_tiles  == vert_run(acc.tiles, start, x, y, start.size[2],
                                              <<>>, dims, tile_scale)
                  IN  line_scan([ tiles |-> merge_line(acc.tiles, a,
                                                chosen_run(horiz_tiles, vert_tiles)),
                                  count |-> acc.count
                                              + run_count(horiz_tiles, vert_tiles) ],
                                a + 1, dims, tile_scale)

line_optimize_tiles(tiles, width, height, tile_scale) ==
    line_scan([ tiles |-> tiles, count |-> 0 ], 0, <<width, height>>, tile_scale)

\* a pass over the base layer and then every feature layer; Pass(tiles) is the
\* per-layer pass (quad.rs:386-391, 514-519)
RECURSIVE LayerCounts(_, _)
LayerCounts(results, k) ==
    IF k > Len(results) THEN 0 ELSE results[k].count + LayerCounts(results, k + 1)

quad_optimize_level(q, level) ==
    LET space == Pow2(level)
        step_amt == space * 2
        base == quad_optimize_tiles(q.tiles, q.width, q.height, space, step_amt)
        rest == [ i \in 1 .. Len(q.height_layers) |->
                    quad_optimize_tiles(q.height_layers[i], q.width, q.height,
                                        space, step_amt) ]
    IN  [ quad  |-> [ q EXCEPT !.tiles = base.tiles,
                               !.height_layers = [ i \in 1 .. Len(rest) |-> rest[i].tiles ] ],
          count |-> base.count + LayerCounts(rest, 1) ]

\* a run pass that reaches the feature layers only when the first layer merged
line_optimize_after_base(q, tile_scale) ==
    LET base == line_optimize_tiles(q.tiles, q.width, q.height, tile_scale)
        rest == [ k \in 1 .. Len(q.height_layers) |->
                    IF base.count = 0
                    THEN [ tiles |-> q.height_layers[k], count |-> 0 ]
                    ELSE line_optimize_tiles(q.height_layers[k], q.width, q.height,
                                             tile_scale) ]
    IN  [ quad  |-> [ q EXCEPT !.tiles = base.tiles,
                               !.height_layers = [ k \in 1 .. Len(rest) |-> rest[k].tiles ] ],
          count |-> base.count + LayerCounts(rest, 1) ]

line_optimize(q, tile_scale) ==
    LET base == line_optimize_tiles(q.tiles, q.width, q.height, tile_scale)
        rest == [ i \in 1 .. Len(q.height_layers) |->
                    line_optimize_tiles(q.height_layers[i], q.width, q.height,
                                        tile_scale) ]
    IN  [ quad  |-> [ q EXCEPT !.tiles = base.tiles,
                               !.height_layers = [ i \in 1 .. Len(rest) |-> rest[i].tiles ] ],
          count |-> base.count + LayerCounts(rest, 1) ]

(***************************************************************************)
(* Emission (quad.rs:604-758).                                             *)
(***************************************************************************)
min_unit(options) == IF options.stud THEN StudUnit ELSE PlainUnit

\* a thickness with no upper clamp
brick_height_unclamped(desired_height, options) ==
    LET height == Max(desired_height, min_unit(options))
    IN  height + (height % min_unit(options))

\* the thickness of one brick of the stack (quad.rs:705-708)
brick_height(desired_height, options) ==
    LET height == Min(Max(desired_height, min_unit(options)), MaxBrickHeight)
    IN  height + (height % min_unit(options))

\* the snap of options.snap (quad.rs:694-695)
snap_up(v) == v + (SnapGrid - (v % SnapGrid))

\* z of a tile before the stack is emitted (quad.rs:676-680, 694)
tile_z(t, options) ==
    LET z == IF t.height = 0 THEN 0 ELSE options.scale * t.height
    IN  IF options.snap THEN snap_up(z) ELSE z

\* desired_height of a tile before the stack is emitted (quad.rs:684-695)
tile_desired_height(t, options, height_adjustment) ==
    LET raw_height == Max(t.height - height_adjustment + 1, 2)
        desired_height == Max((raw_height * options.scale) \div 2, 2)
    IN  IF options.snap THEN snap_up(desired_height) ELSE desired_height

\* a Brick placed as if its tile were one cell wide and deep
new_brick_unit_offset(t, options, height, z, pos_adjust) ==
    [ size     |-> << WrapMul(t.size[1], options.size),
                      WrapMul(t.size[2], options.size),
                      IF options.img /\ options.micro
                      THEN options.size ELSE height - pos_adjust >>,
      position |-> << WrapMul(t.center[1] * 2 + 1, options.size),
                      WrapMul(t.center[2] * 2 + 1, options.size),
                      z - height + pos_adjust + 4 >>,
      color    |-> t.color,
      collide  |-> ~ options.nocollide ]

\* one Brick: the procedural size, the position and the color; the u32
\* thickness `height - pos_adjust` wraps below zero
new_brick(t, options, height, z, pos_adjust) ==
    [ size     |-> << WrapMul(t.size[1], options.size),
                      WrapMul(t.size[2], options.size),
                      IF options.img /\ options.micro
                      THEN options.size ELSE height - pos_adjust >>,
      position |-> << WrapMul(t.center[1] * 2 + t.size[1], options.size),
                      WrapMul(t.center[2] * 2 + t.size[2], options.size),
                      z - height + pos_adjust + 4 >>,
      color    |-> t.color,
      collide  |-> ~ options.nocollide ]

\* the while loop stacking bricks from the top down (quad.rs:701-754)
RECURSIVE brick_stack(_, _, _, _, _)
brick_stack(t, options, desired_height, z, pos_adjust) ==
    IF desired_height > 0
    THEN LET height == brick_height(desired_height, options)
         IN  <<new_brick(t, options, height, z, pos_adjust)>>
               \o brick_stack(t, options, desired_height - height,
                              z - height * 2, pos_adjust)
    ELSE <<>>

\* the bricks of one tile when only merged tiles are skipped
tile_bricks_never_culled(t, options, height_adjustment) ==
    IF t.parent # NoParent
    THEN <<>>
    ELSE brick_stack(t, options, tile_desired_height(t, options, height_adjustment),
                     tile_z(t, options),
                     IF height_adjustment = 0 THEN 0 ELSE PosAdjust)

\* the bricks of one tile (the closure of flat_map, quad.rs:667-756)
tile_bricks(t, options, height_adjustment) ==
    IF t.parent # NoParent \/ (options.cull /\ t.color[4] = 0)
    THEN <<>>
    ELSE brick_stack(t, options, tile_desired_height(t, options, height_adjustment),
                     tile_z(t, options),
                     IF height_adjustment = 0 THEN 0 ELSE PosAdjust)

RECURSIVE tiles_to_bricks_from(_, _, _, _)
tiles_to_bricks_from(tiles, a, options, height_adjustment) ==
    IF a \notin DOMAIN tiles THEN <<>>
    ELSE tile_bricks(tiles[a], options, height_adjustment)
           \o tiles_to_bricks_from(tiles, a + 1, options, height_adjustment)

tiles_to_bricks(tiles, options, height_adjustment) ==
    tiles_to_bricks_from(tiles, 0, options, height_adjustment)

\* height_adjustment of the feature layer enumerated with index i (0-based in
\* the source; layer i of the model is index i - 1): it reads
\* sorted_heights[index] (quad.rs:615-641)
height_adjustment(q, i) ==
    IF q.sorted_heights = <<>> THEN 0
    ELSE LET current_height == q.sorted_heights[i]
         IN  IF q.filtered_heights[current_height] \in q.height_0_colors
             THEN IF i - 1 > 0 THEN q.sorted_heights[i - 1] ELSE 0
             ELSE q.sorted_heights[i]

RECURSIVE layers_to_bricks(_, _, _)
layers_to_bricks(q, i, options) ==
    IF i > Len(q.height_layers) THEN <<>>
    ELSE tiles_to_bricks(q.height_layers[i], options, height_adjustment(q, i))
           \o layers_to_bricks(q, i + 1, options)

into_bricks(q, options) ==
    tiles_to_bricks(q.tiles, options, 0) \o layers_to_bricks(q, 1, options)

(***************************************************************************)
(* Inputs: the sample providers (map.rs:11-29) and GenOptions.             *)
(*                                                                         *)
(* A grid is drawn from a family of shapes: a column pattern and a row     *)
(* pattern give each cell a kind 0..2 and a palette gives each kind its    *)
(* sample (height, color).                                                 *)
(***************************************************************************)
Patterns == {"flat", "alternate", "first", "pairs"}

Bit(p, i) ==
    CASE p = "flat"      -> 0
      [] p = "alternate" -> i % 2
      [] p = "first"     -> IF i = 0 THEN 1 ELSE 0
      [] p = "pairs"     -> (i \div 2) % 2

Palettes ==
    { << <<5, Red>>,  <<5, Blue>>,  <<5, Red>> >>,
      << <<0, Blue>>, <<3, Green>>, <<6, Blue>> >>,
      << <<2, Red>>,  <<4, Red>>,   <<2, Clear>> >> }

Sample(pal, cp, rp, c) == pal[Bit(cp, c[1]) + Bit(rp, c[2]) + 1]

\* Heightmap::at and Colormap::at as functions of the cell
HeightmapOf(width, height, pal, cp, rp) ==
    [ c \in Cells(width, height) |-> Sample(pal, cp, rp, c)[1] ]
ColormapOf(width, height, pal, cp, rp) ==
    [ c \in Cells(width, height) |-> Sample(pal, cp, rp, c)[2] ]

\* gen_full_layers_above_height
Thresholds == {0, 2}

\* tile_scale of a direct line_optimize call: no limit in reach, and a limit
\* of two cells
TileScales == {1, 250}

\* GenOptions as main.rs builds it with no flag given (main.rs:77-108)
DefaultOptions ==
    [ size |-> 5, scale |-> 1, cull |-> FALSE, stud |-> FALSE, snap |-> FALSE,
      img |-> FALSE, micro |-> FALSE, nocollide |-> FALSE, quadtree |-> TRUE,
      gen_full_layers_above_height |-> 0 ]

\* the QuadTree of a run that built none
NoQuad ==
    [ tiles |-> <<>>, height_layers |-> <<>>, sorted_heights |-> <<>>,
      height_0_colors |-> {}, filtered_heights |-> <<>>, width |-> 0, height |-> 0 ]

(***************************************************************************)
(* State.                                                                  *)
(***************************************************************************)
VARIABLES
    hmap,          \* Heightmap::at
    cmap,          \* Colormap::at
    hsize,         \* Heightmap::size()
    csize,         \* Colormap::size()
    options,       \* GenOptions
    quad,          \* the QuadTree
    pc,            \* where the caller stands
    last_call,     \* the last operation called on the QuadTree and its argument
    count,         \* the value the last merge pass returned
    scale,         \* gen_opt_heightmap: the quad level
    i,             \* gen_opt_heightmap: the run-merge iteration
    progress_log,  \* the values passed to progress_f and its answers
    result         \* what the caller got back

vars == << hmap, cmap, hsize, csize, options, quad, pc, last_call, count,
           scale, i, progress_log, result >>

NoResult == [ kind |-> "none", bricks |-> <<>> ]

(***************************************************************************)
(* Spec: a caller of the public QuadTree interface, which builds a tree    *)
(* and then calls quad_optimize_level and line_optimize in any order.      *)
(***************************************************************************)
Init ==
    \E width \in 1 .. MaxW, height \in 1 .. MaxH, pal \in Palettes,
       cp \in Patterns, rp \in Patterns, threshold \in Thresholds :
        /\ hmap = HeightmapOf(width, height, pal, cp, rp)
        /\ cmap = ColormapOf(width, height, pal, cp, rp)
        /\ hsize = <<width, height>>
        /\ csize = <<width, height>>
        /\ options = [ DefaultOptions EXCEPT !.gen_full_layers_above_height = threshold ]
        /\ quad = QuadTree_new(hmap, cmap, width, height, threshold)
        /\ pc = "api"
        /\ last_call = [ op |-> "new", arg |-> threshold ]
        /\ count = 0
        /\ scale = 0
        /\ i = 0
        /\ progress_log = <<>>
        /\ result = NoResult

QuadOptimizeLevel ==
    \E level \in 0 .. MaxLevel :
        /\ pc = "api"
        /\ last_call' = [ op |-> "quad_optimize_level", arg |-> level ]
        /\ IF quad_optimize_panics(quad.width, quad.height, Pow2(level))
           THEN /\ pc' = "panic"
                /\ UNCHANGED << quad, count >>
           ELSE /\ quad' = quad_optimize_level(quad, level).quad
                /\ count' = quad_optimize_level(quad, level).count
                /\ pc' = pc
        /\ UNCHANGED << hmap, cmap, hsize, csize, options, scale, i,
                        progress_log, result >>

LineOptimize ==
    \E tile_scale \in TileScales :
        /\ pc = "api"
        /\ last_call' = [ op |-> "line_optimize", arg |-> tile_scale ]
        /\ quad' = line_optimize(quad, tile_scale).quad
        /\ count' = line_optimize(quad, tile_scale).count
        /\ UNCHANGED << hmap, cmap, hsize, csize, options, pc, scale, i,
                        progress_log, result >>

Next == QuadOptimizeLevel \/ LineOptimize

Spec == Init /\ [][Next]_vars

(***************************************************************************)
(* gen_opt_heightmap (quad.rs:773-854).                                    *)
(*                                                                         *)
(* A progress value is an f32 in the source; the model keeps it in units   *)
(* of 1/ProgressUnit.  log2 is computed in fixed point with ten fraction   *)
(* bits, from the bit length and the repeated squares of the mantissa.     *)
(***************************************************************************)
ProgressUnit == 100000

\* n/d as a progress value
Frac(n, d) == (n * ProgressUnit) \div d

\* the greatest e with 2^e <= n, for n >= 1
RECURSIVE FloorLog2(_)
FloorLog2(n) == IF n < 2 THEN 0 ELSE 1 + FloorLog2(n \div 2)

\* the fraction bits of log2 of a mantissa m in [2^14, 2^15)
RECURSIVE Log2Bits(_, _, _)
Log2Bits(m, bits, acc) ==
    IF bits = 0 THEN acc
    ELSE LET sq == (m * m) \div Pow2(14)
         IN  IF sq >= Pow2(15)
             THEN Log2Bits(sq \div 2, bits - 1, 2 * acc + 1)
             ELSE Log2Bits(sq, bits - 1, 2 * acc)

\* 1024 * log2(n), rounded down, for n >= 1
Log2Fix(n) ==
    LET e == FloorLog2(n)
        m == IF e >= 14 THEN n \div Pow2(e - 14) ELSE n * Pow2(14 - e)
    IN  e * 1024 + Log2Bits(m, 10, 0)

\* a quotient rounded toward zero
TruncDiv(n, d) ==
    IF (n >= 0) = (d > 0)
    THEN (IF n >= 0 THEN n ELSE -n) \div (IF d > 0 THEN d ELSE -d)
    ELSE -((IF n >= 0 THEN n ELSE -n) \div (IF d > 0 THEN d ELSE -d))

\* 0.2 + 0.5 * (scale / (500.0 / size).log2()) (quad.rs:805).  500.0 / 0 is
\* +inf, whose log2 is +inf, and scale / inf is 0.  The log2 is 0 only for
\* size = 500, for which the loop is never entered.
quad_progress(level, size) ==
    CASE size = 0 -> Frac(2, 10)
      [] size > 0 /\ Log2Fix(SizeLimit) # Log2Fix(size) ->
            Frac(2, 10) + TruncDiv(Frac(5, 10) * level * 1024,
                                   Log2Fix(SizeLimit) - Log2Fix(size))

\* prog_offset + prog_scale * (i / 5.0).min(1.0) (quad.rs:816-818, 829)
line_progress(n, opts) ==
    IF opts.quadtree
    THEN Frac(7, 10) + (Frac(25, 100) * Min(n, 5)) \div 5
    ELSE Frac(2, 10) + (Frac(75, 100) * Min(n, 5)) \div 5

\* 2_i32.pow(scale + 1) * (options.size as i32) < 500 (quad.rs:803)
quad_loop_test(level, size) == WrapMul(Pow2(level + 1), size) < SizeLimit

\* a run-merge loop that also stops at the fifth pass
line_loop_done_capped(cnt, n) == cnt = 0 \/ n >= 5

\* `if count == 0 { break }` of the run-merge loop (quad.rs:831-833)
line_loop_done(cnt, n) == cnt = 0

\* a progress! that ignores the answer of the callback
stopped_never(ok) == FALSE

\* progress!: `if !progress_f(e) { return Err("Stopped by user") }`
stopped(ok) == ~ ok

Cancelled == [ kind |-> "Cancelled", bricks |-> <<>> ]

\* one use of progress!: the value is reported, and the run goes on to
\* next_pc with next_result or returns Cancelled
Checkpoint(value, ok, next_pc, next_result) ==
    /\ progress_log' = Append(progress_log, [ value |-> value, ok |-> ok ])
    /\ IF stopped(ok)
       THEN pc' = "done" /\ result' = Cancelled
       ELSE pc' = next_pc /\ result' = next_result

\* progress!(0.0) (quad.rs:788)
Start(ok) ==
    /\ pc = "start"
    /\ Checkpoint(Frac(0, 10), ok, "build", result)
    /\ UNCHANGED << hmap, cmap, hsize, csize, options, quad, last_call, count,
                    scale, i >>

\* QuadTree::new(..)? and progress!(0.2) (quad.rs:791-794)
Build(ok) ==
    /\ pc = "build"
    /\ IF DimensionMismatch(hsize, csize)
       THEN /\ pc' = "done"
            /\ result' = [ kind |-> "DimensionMismatch", bricks |-> <<>> ]
            /\ UNCHANGED << quad, progress_log, last_call >>
       ELSE /\ quad' = QuadTree_new(hmap, cmap, hsize[1], hsize[2],
                                    options.gen_full_layers_above_height)
            /\ last_call' = [ op |-> "new",
                              arg |-> options.gen_full_layers_above_height ]
            /\ Checkpoint(Frac(2, 10), ok,
                          IF options.quadtree THEN "quad_test" ELSE "line", result)
    /\ UNCHANGED << hmap, cmap, hsize, csize, options, count, scale, i >>

\* the test of the while loop and the checkpoint of its body (quad.rs:803-805)
QuadTest(ok) ==
    /\ pc = "quad_test"
    /\ IF quad_loop_test(scale, options.size)
       THEN Checkpoint(quad_progress(scale, options.size), ok, "quad_level", result)
       ELSE pc' = "quad_done" /\ UNCHANGED << progress_log, result >>
    /\ UNCHANGED << hmap, cmap, hsize, csize, options, quad, last_call, count,
                    scale, i >>

\* quad_optimize_level(scale), the break and `scale += 1` (quad.rs:806-812)
QuadLevel ==
    /\ pc = "quad_level"
    /\ last_call' = [ op |-> "quad_optimize_level", arg |-> scale ]
    /\ IF quad_optimize_panics(quad.width, quad.height, Pow2(scale))
       THEN /\ pc' = "panic"
            /\ UNCHANGED << quad, count, scale >>
       ELSE /\ quad' = quad_optimize_level(quad, scale).quad
            /\ count' = quad_optimize_level(quad, scale).count
            /\ IF count' = 0
               THEN pc' = "quad_done" /\ scale' = scale
               ELSE pc' = "quad_test" /\ scale' = scale + 1
    /\ UNCHANGED << hmap, cmap, hsize, csize, options, i, progress_log, result >>

\* progress!(0.7) (quad.rs:814)
QuadDone(ok) ==
    /\ pc = "quad_done"
    /\ Checkpoint(Frac(7, 10), ok, "line", result)
    /\ UNCHANGED << hmap, cmap, hsize, csize, options, quad, last_call, count,
                    scale, i >>

\* one iteration of the run-merge loop (quad.rs:824-835)
LinePass(ok) ==
    /\ pc = "line"
    /\ i' = i + 1
    /\ last_call' = [ op |-> "line_optimize", arg |-> options.size ]
    /\ quad' = line_optimize(quad, options.size).quad
    /\ count' = line_optimize(quad, options.size).count
    /\ Checkpoint(line_progress(i', options), ok,
                  IF line_loop_done(count', i') THEN "pre_emit" ELSE "line", result)
    /\ UNCHANGED << hmap, cmap, hsize, csize, options, scale >>

\* progress!(0.95) (quad.rs:837)
PreEmit(ok) ==
    /\ pc = "pre_emit"
    /\ Checkpoint(Frac(95, 100), ok, "emit", result)
    /\ UNCHANGED << hmap, cmap, hsize, csize, options, quad, last_call, count,
                    scale, i >>

\* into_bricks, progress!(1.0) and Ok(bricks) (quad.rs:840-853)
Emit(ok) ==
    /\ pc = "emit"
    /\ last_call' = [ op |-> "into_bricks", arg |-> 0 ]
    /\ Checkpoint(Frac(10, 10), ok, "done",
                  [ kind |-> "Ok", bricks |-> into_bricks(quad, options) ])
    /\ UNCHANGED << hmap, cmap, hsize, csize, options, quad, count, scale, i >>

\* the steps of gen_opt_heightmap for a callback answering from Answers
GenStep(Answers) ==
    \E ok \in Answers :
        \/ Start(ok)
        \/ Build(ok)
        \/ QuadTest(ok)
        \/ QuadLevel
        \/ QuadDone(ok)
        \/ LinePass(ok)
        \/ PreEmit(ok)
        \/ Emit(ok)

\* the state at the call of gen_opt_heightmap
GenInit(Grids, Options, Mismatches) ==
    \E g \in Grids, o \in Options, m \in Mismatches :
        /\ hmap = HeightmapOf(g.w, g.h, g.pal, g.shape[1], g.shape[2])
        /\ cmap = ColormapOf(g.w, g.h, g.pal, g.shape[1], g.shape[2])
        /\ hsize = <<g.w, g.h>>
        /\ csize = <<g.w + m[1], g.h + m[2]>>
        /\ options = o
        /\ quad = NoQuad
        /\ pc = "start"
        /\ last_call = [ op |-> "none", arg |-> 0 ]
        /\ count = 0
        /\ scale = 0
        /\ i = 0
        /\ progress_log = <<>>
        /\ result = NoResult

\* the shapes of the grids given to gen_opt_heightmap: uniform, row stripes,
\* 2x2 blocks, one odd corner
Shapes == { <<"flat", "flat">>, <<"flat", "alternate">>, <<"pairs", "pairs">>,
            <<"first", "first">> }

GeneralGrids == [ w : 1 .. MaxW, h : 1 .. MaxH, pal : Palettes, shape : Shapes ]

UniformGrids ==
    [ w : 1 .. MaxSide, h : 1 .. MaxSide,
      pal : { << <<5, Red>>, <<5, Blue>>, <<5, Red>> >> },
      shape : { <<"flat", "flat">> } ]

\* options.size: no limit in reach, a limit of four cells with one quad
\* level, a limit of two cells with no quad level, no merge at all
Sizes == {1, 125, 250, 500}

\* sizes outside the range of bricks: 0, and 2^30 + 1, whose double leaves i32
WideSizes == Sizes \cup {0, 1073741825}

GenOptions(SizeSet, Quads, Culls, ThresholdSet) ==
    { [ DefaultOptions EXCEPT !.size = s, !.quadtree = q, !.cull = c,
                              !.gen_full_layers_above_height = t ] :
        s \in SizeSet, q \in Quads, c \in Culls, t \in ThresholdSet }

\* SpecGen: gen_opt_heightmap on the general grids, with a callback that may
\* decline at any checkpoint
InitGen ==
    GenInit(GeneralGrids, GenOptions(Sizes, BOOLEAN, BOOLEAN, Thresholds),
            {<<0, 0>>, <<1, 0>>, <<0, 1>>})
NextGen == GenStep(BOOLEAN)
SpecGen == InitGen /\ [][NextGen]_vars

\* SpecGenContinue: gen_opt_heightmap with a callback that always continues,
\* on the uniform grids and the general ones
InitGenContinue ==
    GenInit(UniformGrids \cup GeneralGrids,
            GenOptions({1, 125}, BOOLEAN, {FALSE}, Thresholds), {<<0, 0>>})
NextGenContinue == GenStep({TRUE})
SpecGenContinue == InitGenContinue /\ [][NextGenContinue]_vars

\* SpecGenAnySize: gen_opt_heightmap with any u32 as the unit size
InitGenAnySize ==
    GenInit(GeneralGrids, GenOptions(WideSizes, BOOLEAN, {FALSE}, {0}), {<<0, 0>>})
SpecGenAnySize == InitGenAnySize /\ [][NextGen]_vars

(***************************************************************************)
(* SpecBrick: tiles_to_bricks applied to a layer of one tile, for every    *)
(* sample up to MaxTileHeight.                                             *)
(***************************************************************************)
\* options.scale
Scales == {1, 4, 8}

\* height_adjustment: the base layer, and a feature layer's
Adjustments == {0, 3}

InitBrick ==
    \E h \in 0 .. MaxTileHeight, color \in {Red, Clear}, s \in Scales,
       snap \in BOOLEAN, stud \in BOOLEAN, cull \in BOOLEAN :
        /\ hmap = [ c \in Cells(1, 1) |-> h ]
        /\ cmap = [ c \in Cells(1, 1) |-> color ]
        /\ hsize = <<1, 1>>
        /\ csize = <<1, 1>>
        /\ options = [ DefaultOptions EXCEPT !.scale = s, !.snap = snap,
                                             !.stud = stud, !.cull = cull ]
        /\ quad = QuadTree_new(hmap, cmap, 1, 1, 0)
        /\ pc = "tiles"
        /\ last_call = [ op |-> "new", arg |-> 0 ]
        /\ count = 0
        /\ scale = 0
        /\ i = 0
        /\ progress_log = <<>>
        /\ result = NoResult

TilesToBricks ==
    \E adjustment \in Adjustments :
        /\ pc = "tiles"
        /\ pc' = "bricks"
        /\ last_call' = [ op |-> "tiles_to_bricks", arg |-> adjustment ]
        /\ result' = [ kind |-> "Ok",
                       bricks |-> tiles_to_bricks(quad.tiles, options, adjustment) ]
        /\ UNCHANGED << hmap, cmap, hsize, csize, options, quad, count, scale, i,
                        progress_log >>

NextBrick == TilesToBricks
SpecBrick == InitBrick /\ [][NextBrick]_vars

(***************************************************************************)
(* Vocabulary of the properties.                                           *)
(***************************************************************************)
\* the base layer followed by the feature layers
Layers(q) == <<q.tiles>> \o q.height_layers

\* the freshly built tree of the inputs
Fresh == QuadTree_new(hmap, cmap, hsize[1], hsize[2],
                      options.gen_full_layers_above_height)

Live(tiles) == { a \in DOMAIN tiles : tiles[a].parent = NoParent }

\* the cells of [center.x, center.x + size.0) x [center.y, center.y + size.1)
Rect(t) ==
    (t.center[1] .. t.center[1] + t.size[1] - 1)
        \X (t.center[2] .. t.center[2] + t.size[2] - 1)

RECURSIVE SeqSum(_, _)
SeqSum(f, k) == IF k > Len(f) THEN 0 ELSE f[k] + SeqSum(f, k + 1)

\* the number of live tiles of the base layer and all feature layers
LiveCount(q) ==
    SeqSum([ l \in 1 .. Len(Layers(q)) |-> Cardinality(Live(Layers(q)[l])) ], 1)

Partitions(tiles, width, height) ==
    /\ \A a \in Live(tiles) : Rect(tiles[a]) \subseteq Cells(width, height)
    /\ \A c \in Cells(width, height) :
           Cardinality({ a \in Live(tiles) : c \in Rect(tiles[a]) }) = 1

(***************************************************************************)
(* C1.  Partition invariant: in every state reached by any sequence of     *)
(* quad_optimize_level and line_optimize calls, the rectangles of the live *)
(* tiles of every layer cover each cell of the domain exactly once and     *)
(* stay inside the domain.                                                 *)
(***************************************************************************)
C1_PartitionInvariant ==
    \A l \in 1 .. Len(Layers(quad)) :
        Partitions(Layers(quad)[l], quad.width, quad.height)

(***************************************************************************)
(* C2.  Merge soundness: after any sequence of quad_optimize_level and     *)
(* line_optimize calls, every cell inside the rectangle of a live tile     *)
(* had, in the freshly built layer, that tile's color and height.          *)
(***************************************************************************)
C2_MergeSoundness ==
    \A l \in 1 .. Len(Layers(quad)) :
        \A a \in Live(Layers(quad)[l]) :
            \A c \in Rect(Layers(quad)[l][a]) \cap Cells(quad.width, quad.height) :
                LET t == Layers(quad)[l][a]
                    cell == Layers(Fresh)[l][Addr(c[1], c[2], quad.height)]
                IN  cell.color = t.color /\ cell.height = t.height

\* the tiles, over all layers, whose size differs between two trees
Grown(q, after) ==
    SeqSum([ l \in 1 .. Len(Layers(q)) |->
                Cardinality({ a \in DOMAIN Layers(q)[l] :
                                Layers(q)[l][a].size # Layers(after)[l][a].size }) ], 1)

(***************************************************************************)
(* C10.  Monotonic reduction: each call of quad_optimize_level or          *)
(* line_optimize that returns decreases the number of live tiles, summed   *)
(* over the base layer and the feature layers, by exactly the value it     *)
(* returns; the value is never negative, so the live count never           *)
(* increases; and for a quad pass the value is 3 times the number of 2x2   *)
(* blocks merged (the top-left tiles whose size grew).                     *)
(***************************************************************************)
C10_MonotonicReduction ==
    [][ pc' = "api" =>
            /\ LiveCount(quad) - LiveCount(quad') = count'
            /\ count' >= 0
            /\ LiveCount(quad') <= LiveCount(quad)
            /\ last_call'.op = "quad_optimize_level" =>
                   count' = 3 * Grown(quad, quad') ]_vars

\* a quad pass over a tree with feature layers has merged two blocks or more
C10_Witness ==
    /\ pc = "api"
    /\ last_call.op = "quad_optimize_level"
    /\ Len(quad.height_layers) > 0
    /\ count >= 6

\* height_adjustment of layer l of Layers(q)
LayerAdjustment(q, l) == IF l = 1 THEN 0 ELSE height_adjustment(q, l - 1)

\* the horizontal footprint of a brick: <<x0, x1, y0, y1>>, the position
\* minus and plus the half extents
BrickBox(b) ==
    << b.position[1] - b.size[1], b.position[1] + b.size[1],
       b.position[2] - b.size[2], b.position[2] + b.size[2] >>

BoxArea(box) == (box[2] - box[1]) * (box[4] - box[3])

BoxesOverlap(b1, b2) ==
    /\ b1[1] < b2[2] /\ b2[1] < b1[2]
    /\ b1[3] < b2[4] /\ b2[3] < b1[4]

\* the (vertical position, thickness) of each brick of a stack
Stack(bricks) ==
    [ k \in DOMAIN bricks |-> <<bricks[k].position[3], bricks[k].size[3]>> ]

\* the boxes are disjoint and their union is the box `whole`
BoxesTile(boxes, cells, whole) ==
    /\ \A c \in cells :
           /\ whole[1] <= boxes[c][1] /\ boxes[c][2] <= whole[2]
           /\ whole[3] <= boxes[c][3] /\ boxes[c][4] <= whole[4]
    /\ \A c \in cells, d \in cells : c # d => ~ BoxesOverlap(boxes[c], boxes[d])
    /\ BoxArea(whole) =
           LET RECURSIVE Total(_)
               Total(S) == IF S = {} THEN 0
                           ELSE LET c == CHOOSE c \in S : TRUE
                                IN  BoxArea(boxes[c]) + Total(S \ {c})
           IN  Total(cells)

\* the bricks of the live tile at address a of layer l against the bricks of
\* the cells of its rectangle in the freshly built layer l
SameAsUnmerged(l, a) ==
    LET t       == Layers(quad)[l][a]
        adj     == LayerAdjustment(quad, l)
        merged  == tile_bricks(t, options, adj)
        cells   == Rect(t) \cap Cells(quad.width, quad.height)
        unmerged == [ c \in cells |->
                        tile_bricks(Layers(Fresh)[l][Addr(c[1], c[2], quad.height)],
                                    options, adj) ]
    IN  /\ cells = Rect(t)
        /\ \A c \in cells : Stack(unmerged[c]) = Stack(merged)
        /\ \A k \in DOMAIN merged : BrickBox(merged[k]) = BrickBox(merged[1])
        /\ merged # <<>> =>
               BoxesTile([ c \in cells |-> BrickBox(unmerged[c][1]) ], cells,
                         BrickBox(merged[1]))

(***************************************************************************)
(* C3.  Merged emission is equivalent to unmerged emission: when           *)
(* gen_opt_heightmap returns bricks, for every live tile T of every layer  *)
(* the footprint of T's bricks is the union of the footprints of the       *)
(* bricks that the 1x1 cells of T's rectangle give with no merge, and the  *)
(* sequence of (vertical position, thickness) of T's bricks is the         *)
(* sequence each of those cells gives.                                     *)
(***************************************************************************)
C3_MergedEqualsUnmerged ==
    result.kind = "Ok" =>
        \A l \in 1 .. Len(Layers(quad)) :
            \A a \in Live(Layers(quad)[l]) : SameAsUnmerged(l, a)

\* bricks were returned for a tree in which the base layer and a feature
\* layer both hold a live, emitted tile of more than one cell each way
C3_Witness ==
    /\ result.kind = "Ok"
    /\ Len(quad.height_layers) > 0
    /\ \E a \in Live(quad.tiles) :
           /\ quad.tiles[a].size[1] > 1 /\ quad.tiles[a].size[2] > 1
           /\ tile_bricks(quad.tiles[a], options, 0) # <<>>
    /\ \E l \in 2 .. Len(Layers(quad)) : \E a \in Live(Layers(quad)[l]) :
           /\ Layers(quad)[l][a].size[1] * Layers(quad)[l][a].size[2] > 1
           /\ tile_bricks(Layers(quad)[l][a], options, LayerAdjustment(quad, l)) # <<>>

(***************************************************************************)
(* C4.  Size bound on footprint: for a unit size s <= 500, every brick     *)
(* returned by gen_opt_heightmap has the footprint of a live tile,         *)
(* size.0 = tile width * s and size.1 = tile depth * s, both at most 500.  *)
(***************************************************************************)
C4_FootprintBound ==
    (result.kind = "Ok" /\ options.size <= SizeLimit) =>
        \A k \in DOMAIN result.bricks :
            LET b == result.bricks[k]
            IN  /\ b.size[1] <= SizeLimit /\ b.size[2] <= SizeLimit
                /\ \E l \in 1 .. Len(Layers(quad)) : \E a \in Live(Layers(quad)[l]) :
                       LET t == Layers(quad)[l][a]
                       IN  /\ b.size[1] = t.size[1] * options.size
                           /\ b.size[2] = t.size[2] * options.size
                           /\ b.color = t.color

\* a merged tile was emitted with a footprint that meets the limit exactly
C4_Witness ==
    /\ result.kind = "Ok"
    /\ options.size < SizeLimit
    /\ \E k \in DOMAIN result.bricks :
           result.bricks[k].size[1] = SizeLimit /\ result.bricks[k].size[2] = SizeLimit

(***************************************************************************)
(* C5.  Size bound on thickness: for every tile height, vertical scale,    *)
(* snap setting and brick style, the thickness computed for each brick of  *)
(* a tile's stack, after the clamp and the rounding to the minimum unit,   *)
(* is at most 250.  The thickness is the emitted size.2 plus the           *)
(* pos_adjust that tiles_to_bricks subtracted from it.                     *)
(***************************************************************************)
C5_ThicknessBound ==
    pc = "bricks" =>
        \A k \in DOMAIN result.bricks :
            result.bricks[k].size[3] + (IF last_call.arg = 0 THEN 0 ELSE PosAdjust)
                <= MaxBrickHeight

\* the callback declined the last checkpoint reported
Declined == progress_log # <<>> /\ ~ progress_log[Len(progress_log)].ok

(***************************************************************************)
(* C6.  Cancellation: once the progress callback returns false at a        *)
(* checkpoint, gen_opt_heightmap has returned Cancelled with no bricks,    *)
(* and no step follows: no further checkpoint, merge pass or emission.     *)
(* Cancelled is returned for no other reason.                              *)
(***************************************************************************)
C6_Cancellation ==
    /\ [](Declined => (pc = "done" /\ result = Cancelled))
    /\ [](result.kind = "Cancelled" => Declined)
    /\ [][~ Declined]_vars

\* the callback declined the last checkpoint, 1.0, after the bricks were made
C6_Witness ==
    /\ Declined
    /\ Len(progress_log) > 4
    /\ progress_log[Len(progress_log)].value = ProgressUnit
    /\ last_call.op = "into_bricks"
    /\ result = Cancelled

(***************************************************************************)
(* C7.  Dimension mismatch: when heightmap.size() differs from             *)
(* colormap.size() and the callback continues at 0.0, gen_opt_heightmap    *)
(* returns the dimension-mismatch error with no grid built, no merge pass  *)
(* run, no brick returned and 0.0 the only checkpoint reported; the error  *)
(* is returned in no other case.                                           *)
(***************************************************************************)
C7_DimensionMismatch ==
    /\ (hsize # csize /\ pc \notin {"start", "build"} /\ progress_log[1].ok) =>
           /\ pc = "done"
           /\ result = [ kind |-> "DimensionMismatch", bricks |-> <<>> ]
           /\ quad = NoQuad
           /\ last_call.op = "none"
           /\ progress_log = << [ value |-> 0, ok |-> TRUE ] >>
    /\ result.kind = "DimensionMismatch" => hsize # csize

\* the error was returned for sizes that differ in the height only
C7_Witness ==
    /\ result.kind = "DimensionMismatch"
    /\ hsize[1] = csize[1]
    /\ hsize[2] # csize[2]

\* the position of pc on the way to the return
PcRank ==
    CASE pc = "start"      -> 9
      [] pc = "build"      -> 8
      [] pc = "quad_test"  -> 7
      [] pc = "quad_level" -> 6
      [] pc = "quad_done"  -> 5
      [] pc = "line"       -> 4
      [] pc = "pre_emit"   -> 3
      [] pc = "emit"       -> 2
      [] pc = "done"       -> 1
      [] pc = "panic"      -> 0

\* a natural number that bounds the steps left: the live tiles left to merge
\* (before the tree is built, the cells of as many layers as there are cells,
\* and one more), then the position of pc
Variant ==
    10 * (IF quad = NoQuad
          THEN hsize[1] * hsize[2] * (hsize[1] * hsize[2] + 1)
          ELSE LiveCount(quad))
      + PcRank

(***************************************************************************)
(* C8.  Termination: with an always-continue callback every step of        *)
(* gen_opt_heightmap lowers a natural number, so the run is finite; it     *)
(* never panics and returns nothing but its bricks; the run-merge loop     *)
(* goes on after every pass that merged something and is left only after   *)
(* a pass that returned zero, whatever the number of passes; and every     *)
(* pass that returns a non-zero count strictly reduces the number of live  *)
(* tiles.                                                                  *)
(***************************************************************************)
C8_Termination ==
    /\ [][Variant' < Variant /\ Variant' > 0]_vars
    /\ [](pc # "panic" /\ (pc = "done" => result.kind = "Ok"))
    /\ [](pc \in {"pre_emit", "emit", "done"} => count = 0)
    /\ []((pc = "line" /\ i > 0) => count > 0)
    /\ [][(last_call'.op = "line_optimize" /\ count' > 0) =>
              LiveCount(quad') < LiveCount(quad)]_vars

\* the bricks were returned after more than five run-merge passes
C8_Witness ==
    /\ pc = "done"
    /\ result.kind = "Ok"
    /\ i > 5

(***************************************************************************)
(* C9.  Progress monotonicity: the values passed to the progress callback  *)
(* are non-decreasing and lie in [0, 1]; every per-level quad checkpoint   *)
(* lies in [0.2, 0.7] and every run-merge checkpoint is at most 0.95.      *)
(***************************************************************************)
C9_ProgressMonotone ==
    /\ \A k \in 1 .. Len(progress_log) :
           /\ progress_log[k].value >= 0
           /\ progress_log[k].value <= ProgressUnit
           /\ k > 1 => progress_log[k - 1].value <= progress_log[k].value
    /\ pc = "quad_level" =>
           /\ progress_log[Len(progress_log)].value >= Frac(2, 10)
           /\ progress_log[Len(progress_log)].value <= Frac(7, 10)
    /\ (pc \in {"line", "pre_emit"} /\ i > 0) =>
           progress_log[Len(progress_log)].value <= Frac(95, 100)

(***************************************************************************)
(* C11.  Idempotence of the run-merge fixpoint: a call of line_optimize    *)
(* that returns 0 left the whole tree unchanged (every tile's size,        *)
(* neighbors and parent), and in the state it leaves a further call of     *)
(* line_optimize with the same tile_scale returns 0 and changes nothing.   *)
(***************************************************************************)
C11_FixpointIdempotent ==
    /\ [][(last_call'.op = "line_optimize" /\ count' = 0) => quad' = quad]_vars
    /\ []((last_call.op = "line_optimize" /\ count = 0) =>
              /\ line_optimize(quad, last_call.arg).count = 0
              /\ line_optimize(quad, last_call.arg).quad = quad)

\* a run pass returned 0 on a tree in which earlier passes had merged tiles
C11_Witness ==
    /\ last_call.op = "line_optimize"
    /\ count = 0
    /\ \E a \in DOMAIN quad.tiles : quad.tiles[a].parent # NoParent

(***************************************************************************)
(* C12.  Cull of zero-elevation tiles: in un-layered mode (threshold 0)    *)
(* with cull enabled, the bricks returned hold no brick of a live tile     *)
(* whose height is 0.                                                      *)
(***************************************************************************)
C12_CullZeroElevation ==
    (result.kind = "Ok" /\ options.cull /\ options.gen_full_layers_above_height = 0) =>
        \A a \in Live(quad.tiles) :
            quad.tiles[a].height = 0 => tile_bricks(quad.tiles[a], options, 0) = <<>>

\* the distinct elevations sampled, and those above the layering threshold
SampledHeights == { hmap[c] : c \in Cells(hsize[1], hsize[2]) }
HeightsAbove ==
    { h \in SampledHeights : h > options.gen_full_layers_above_height }

(***************************************************************************)
(* C13.  Feature layer count: a tree built with threshold 0 has no feature *)
(* layer; a tree built with a threshold > 0 has exactly one feature layer  *)
(* per distinct sampled elevation above the threshold, whether or not any  *)
(* sample lies at or below the threshold.                                  *)
(***************************************************************************)
C13_FeatureLayerCount ==
    quad # NoQuad =>
        Len(quad.height_layers) =
            IF options.gen_full_layers_above_height = 0
            THEN 0 ELSE Cardinality(HeightsAbove)

(***************************************************************************)
(* C13, amended.  A tree built with threshold 0 has no feature layer; a    *)
(* tree built with a threshold > 0 has one feature layer per retained      *)
(* elevation except the lowest: one per distinct sampled elevation above   *)
(* the threshold when some sample lies at or below the threshold, and one  *)
(* fewer when none does (the lowest elevation is then the base grid).      *)
(***************************************************************************)
C13_FeatureLayerCountAmended ==
    quad # NoQuad =>
        Len(quad.height_layers) =
            IF options.gen_full_layers_above_height = 0 THEN 0
            ELSE IF HeightsAbove # {} /\ SampledHeights = HeightsAbove
                 THEN Cardinality(HeightsAbove) - 1
                 ELSE Cardinality(HeightsAbove)

\* a tree with a feature layer, built with no sample at or below the threshold
C13_Witness ==
    /\ last_call.op = "new"
    /\ options.gen_full_layers_above_height > 0
    /\ SampledHeights = HeightsAbove
    /\ Len(quad.height_layers) = 1

\* the least n with n * d >= v
CeilDiv(v, d) == (v + d - 1) \div d

\* the tile of SpecBrick and the height_adjustment it was emitted with
BrickTile == quad.tiles[0]
Skipped(t) == t.parent # NoParent \/ (options.cull /\ t.color[4] = 0)

(***************************************************************************)
(* C14.  Minimal segment count: for a live tile that is not skipped, the   *)
(* number of bricks emitted is ceil(d / 250), with d the desired           *)
(* thickness after the optional snap, and at least 1.                      *)
(***************************************************************************)
C14_MinimalSegments ==
    (pc = "bricks" /\ ~ Skipped(BrickTile)) =>
        /\ Len(result.bricks) =
               CeilDiv(tile_desired_height(BrickTile, options, last_call.arg),
                       MaxBrickHeight)
        /\ Len(result.bricks) >= 1

\* a tile was emitted as three bricks
C14_Witness ==
    /\ pc = "bricks"
    /\ ~ Skipped(BrickTile)
    /\ Len(result.bricks) = 3

\* the inputs of the round-trip scenario: a 2x2 grid, every cell of
\* elevation 5 and the opaque color Red, no layering, vertical scale 1
RoundTripGrid ==
    /\ hsize = <<2, 2>>
    /\ \A c \in Cells(2, 2) : hmap[c] = 5 /\ cmap[c] = Red
    /\ options.gen_full_layers_above_height = 0
    /\ options.scale = 1

\* one live tile of size (2, 2) at (0, 0), the three others merged, and one
\* brick over the four cells
RoundTripResult(q) ==
    /\ Live(q.tiles) = {0}
    /\ q.tiles[0].size = <<2, 2>>
    /\ q.tiles[0].center = <<0, 0>>
    /\ \A a \in 1 .. 3 : q.tiles[a].parent # NoParent
    /\ Len(into_bricks(q, options)) = 1
    /\ BrickBox(into_bricks(q, options)[1]) =
           <<0, 4 * options.size, 0, 4 * options.size>>

(***************************************************************************)
(* C15.  Round-trip scenario: on the freshly built tree of a 2x2 grid      *)
(* whose cells all have elevation 5 and the same opaque color, one         *)
(* quad_optimize_level(0) call leaves exactly one live tile, of size (2,2) *)
(* at (0,0), the three others merged, and into_bricks then returns exactly *)
(* one brick, whose footprint covers the four cells.                       *)
(***************************************************************************)
C15_RoundTrip ==
    [][(RoundTripGrid /\ last_call.op = "new"
           /\ last_call'.op = "quad_optimize_level" /\ last_call'.arg = 0)
          => RoundTripResult(quad')]_vars

\* the scenario grid after a quad pass at level 0 that merged one block
C15_Witness ==
    /\ RoundTripGrid
    /\ last_call = [ op |-> "quad_optimize_level", arg |-> 0 ]
    /\ count = 3
    /\ Cardinality(Live(quad.tiles)) = 1

\* the returned bricks placed over the tile t: same color, same center
BricksOver(t) ==
    { k \in DOMAIN result.bricks :
        /\ result.bricks[k].color = t.color
        /\ result.bricks[k].position[1] = (t.center[1] * 2 + t.size[1]) * options.size
        /\ result.bricks[k].position[2] = (t.center[2] * 2 + t.size[2]) * options.size }

(***************************************************************************)
(* C16.  Cull of transparent tiles: in the bricks gen_opt_heightmap        *)
(* returns, with cull enabled no brick has a color of alpha 0, whatever    *)
(* the layer of its tile, and a 1x1 fully transparent grid gives Ok with   *)
(* an empty list; with cull disabled every live tile of alpha 0 has at     *)
(* least one brick.                                                        *)
(***************************************************************************)
C16_CullTransparent ==
    /\ (result.kind = "Ok" /\ options.cull) =>
           \A k \in DOMAIN result.bricks : result.bricks[k].color[4] # 0
    /\ (result.kind = "Ok" /\ ~ options.cull) =>
           \A l \in 1 .. Len(Layers(quad)) : \A a \in Live(Layers(quad)[l]) :
               Layers(quad)[l][a].color[4] = 0 => BricksOver(Layers(quad)[l][a]) # {}
    /\ (/\ pc = "done" /\ options.cull
        /\ hsize = <<1, 1>> /\ csize = <<1, 1>> /\ cmap[<<0, 0>>][4] = 0
        /\ \A k \in DOMAIN progress_log : progress_log[k].ok) =>
           result = [ kind |-> "Ok", bricks |-> <<>> ]

\* the 1x1 fully transparent grid, culled: Ok with no brick
C16_Witness ==
    /\ result = [ kind |-> "Ok", bricks |-> <<>> ]
    /\ options.cull
    /\ hsize = <<1, 1>>
    /\ quad.tiles[0].color[4] = 0

\* the block anchored at the tile of address a, for tiles `space` apart
BlockOf(a, height, space) ==
    LET c == CellOf(a, height)
    IN  { a, Addr(c[1] + space, c[2], height), Addr(c[1], c[2] + space, height),
          Addr(c[1] + space, c[2] + space, height) }

(***************************************************************************)
(* C17.  Quad merge precondition: a quad pass at level L merges the block  *)
(* anchored at a tile only if that tile's size was exactly (2^L, 2^L) and  *)
(* the four tiles of the block were pairwise quad-similar, also when run   *)
(* passes have produced non-square tiles before.                           *)
(***************************************************************************)
C17_QuadPrecondition ==
    [][(last_call'.op = "quad_optimize_level" /\ pc' = "api") =>
          \A l \in 1 .. Len(Layers(quad)) : \A a \in DOMAIN Layers(quad)[l] :
              Layers(quad')[l][a].size # Layers(quad)[l][a].size =>
                  LET space == Pow2(last_call'.arg)
                      tiles == Layers(quad)[l]
                  IN  /\ tiles[a].size = <<space, space>>
                      /\ \A b \in BlockOf(a, quad.height, space),
                            d \in BlockOf(a, quad.height, space) :
                                b # d => similar_quad(tiles[b], tiles[d])]_vars

\* the thickness of an emitted brick before the layered correction pos_adjust
\* was subtracted from it (quad.rs:659-663, 728)
SegmentThickness(b) ==
    b.size[3] + (IF last_call.arg = 0 THEN 0 ELSE PosAdjust)

(***************************************************************************)
(* C18.  Stud/plain thickness unit: every emitted segment thickness h,     *)
(* taken before the layered 4-unit correction, is at least min_unit and an *)
(* exact multiple of min_unit (5 with options.stud, 2 otherwise).          *)
(***************************************************************************)
C18_ThicknessUnit ==
    pc = "bricks" =>
        \A k \in 1 .. Len(result.bricks) :
            LET h == SegmentThickness(result.bricks[k])
            IN  /\ min_unit(options) <= h
                /\ h % min_unit(options) = 0

\* the tiles of the layer that received a parent in the step
Absorbed(before, after) ==
    { a \in DOMAIN before : before[a].parent = NoParent /\ after[a].parent # NoParent }

(***************************************************************************)
(* C19.  Parent reference: every tile's index is unique within its layer   *)
(* and equals its array address y + x*height; so whenever a quad merge or  *)
(* a run merge sets parent on an absorbed tile, the stored value is the    *)
(* array address of the absorbing tile, the tile whose extent took in the  *)
(* absorbed tile, for every grid shape.                                    *)
(***************************************************************************)
C19_ParentReference ==
    /\ [](quad # NoQuad =>
            \A l \in 1 .. Len(Layers(quad)) :
                LET tiles == Layers(quad)[l]
                IN  /\ \A a \in DOMAIN tiles : tiles[a].index = a
                    /\ \A a, b \in DOMAIN tiles :
                           tiles[a].index = tiles[b].index => a = b)
    /\ [][(quad # NoQuad /\ quad' # NoQuad) =>
            \A l \in 1 .. Len(Layers(quad)) :
                \A a \in Absorbed(Layers(quad)[l], Layers(quad')[l]) :
                    LET p == Layers(quad')[l][a].parent
                    IN  /\ p \in DOMAIN Layers(quad')[l]
                        /\ p # a
                        /\ CellOf(a, quad.height) \in Rect(Layers(quad')[l][p])]_vars

\* the lowest retained elevation of a layered tree
LowestRetained == SetMin(DOMAIN quad.filtered_heights)

(***************************************************************************)
(* C20.  Base layer construction (threshold > 0): with m the lowest        *)
(* retained elevation, each base-layer cell's height is its sample if that *)
(* is <= m and m otherwise; its color is the representative color of m     *)
(* only when the cell was clamped (sample > m), and every unclamped cell,  *)
(* one whose sample equals m included, keeps its own sampled color.        *)
(***************************************************************************)
C20_BaseLayer ==
    (quad # NoQuad /\ options.gen_full_layers_above_height > 0) =>
        \A a \in DOMAIN quad.tiles :
            LET c == CellOf(a, quad.height)
                m == LowestRetained
            IN  /\ quad.tiles[a].height = (IF hmap[c] <= m THEN hmap[c] ELSE m)
                /\ quad.tiles[a].color =
                       (IF hmap[c] > m THEN quad.filtered_heights[m] ELSE cmap[c])

\* the offset that the basin flag of feature layer k itself selects: the layer
\* is built for sorted_heights[k + 1] (quad.rs:238-241)
OwnFlagAdjustment(q, k) ==
    IF q.filtered_heights[q.sorted_heights[k + 1]] \in q.height_0_colors
    THEN IF k - 1 > 0 THEN q.sorted_heights[k - 1] ELSE 0
    ELSE q.sorted_heights[k]

(***************************************************************************)
(* C21.  Emission offset per layer: for the feature layer built for the    *)
(* retained elevation h with representative color c, the vertical offset   *)
(* that into_bricks passes to tiles_to_bricks is selected by the basin     *)
(* flag of that same layer, that is by whether c, the color of h itself    *)
(* and not of the preceding retained elevation, is an elevation-0 color.   *)
(* The base layer is emitted with the literal offset 0.                    *)
(***************************************************************************)
C21_EmissionOffset ==
    quad # NoQuad =>
        \A k \in 1 .. Len(quad.height_layers) :
            height_adjustment(quad, k) = OwnFlagAdjustment(quad, k)

(***************************************************************************)
(* SpecScan: line_optimize_tiles on the first layer, one candidate start   *)
(* tile per step (quad.rs:534-594).                                        *)
(***************************************************************************)
\* a scan that takes the starts row by row
scan_start_by_rows(k, dims) == Addr(k % dims[1], k \div dims[1], dims[2])

\* start_i of the k-th iteration of `for x in 0..width { for y in 0..height`
\* (quad.rs:537-539)
scan_start(k, dims) == Addr(k \div dims[2], k % dims[2], dims[2])

\* the body of the two loops for the start tile of address a (quad.rs:539-590)
line_step(tiles, a, dims, tile_scale) ==
    LET c == CellOf(a, dims[2])
        start == tiles[a]
        horiz_tiles == horiz_run(tiles, start, c[1], c[2], start.size[1], <<>>,
                                 dims, tile_scale)
        vert_tiles  == vert_run(tiles, start, c[1], c[2], start.size[2], <<>>,
                                dims, tile_scale)
    IN  IF start.parent # NoParent
        THEN [ tiles |-> tiles, count |-> 0, horiz |-> <<>>, vert |-> <<>>,
               live |-> FALSE ]
        ELSE [ tiles |-> merge_line(tiles, a, chosen_run(horiz_tiles, vert_tiles)),
               count |-> run_count(horiz_tiles, vert_tiles),
               horiz |-> horiz_tiles, vert |-> vert_tiles, live |-> TRUE ]

InitScan ==
    \E width \in 1 .. MaxW, height \in 1 .. MaxH, pal \in Palettes,
       cp \in Patterns, rp \in Patterns, threshold \in Thresholds :
        /\ hmap = HeightmapOf(width, height, pal, cp, rp)
        /\ cmap = ColormapOf(width, height, pal, cp, rp)
        /\ hsize = <<width, height>>
        /\ csize = <<width, height>>
        /\ options = [ DefaultOptions EXCEPT !.gen_full_layers_above_height = threshold ]
        /\ quad = QuadTree_new(hmap, cmap, width, height, threshold)
        /\ pc = "pass"
        /\ last_call = [ op |-> "new", arg |-> threshold ]
        /\ count = 0
        /\ scale = 1
        /\ i = 0
        /\ progress_log = <<>>
        /\ result = NoResult

\* line_optimize_tiles is entered: `let mut count = 0`
BeginPass ==
    \E tile_scale \in TileScales :
        /\ pc = "pass"
        /\ pc' = "scan"
        /\ scale' = tile_scale
        /\ count' = 0
        /\ i' = 0
        /\ last_call' = [ op |-> "line_optimize_tiles", arg |-> tile_scale ]
        /\ UNCHANGED << hmap, cmap, hsize, csize, options, quad, progress_log, result >>

\* one iteration of the inner loop
Visit ==
    /\ pc = "scan"
    /\ i < hsize[1] * hsize[2]
    /\ LET a == scan_start(i, hsize)
           step == line_step(quad.tiles, a, hsize, scale)
       IN  /\ quad' = [ quad EXCEPT !.tiles = step.tiles ]
           /\ count' = count + step.count
           /\ last_call' = [ op |-> "start", arg |-> a, live |-> step.live,
                             horiz |-> step.horiz, vert |-> step.vert ]
    /\ i' = i + 1
    /\ UNCHANGED << hmap, cmap, hsize, csize, options, pc, scale, progress_log, result >>

\* the loops are over: line_optimize_tiles returns count
EndPass ==
    /\ pc = "scan"
    /\ i = hsize[1] * hsize[2]
    /\ pc' = "pass"
    /\ last_call' = [ op |-> "return", arg |-> count ]
    /\ UNCHANGED << hmap, cmap, hsize, csize, options, quad, count, scale, i,
                    progress_log, result >>

NextScan == BeginPass \/ Visit \/ EndPass
SpecScan == InitScan /\ [][NextScan]_vars

\* the addresses of a run
RunSet(run) == { run[k] : k \in 1 .. Len(run) }

(***************************************************************************)
(* C22.  Run choice: from a live start tile the horizontal candidate run   *)
(* is committed only when it has strictly more tiles than the vertical     *)
(* one, by tile count and not by summed extent; on equal counts the        *)
(* vertical run is committed, and two empty runs merge nothing.  Exactly   *)
(* one run is committed: its tiles get the start as parent, and the tiles  *)
(* of the other run are left unchanged.                                    *)
(***************************************************************************)
C22_RunChoice ==
    [][(last_call'.op = "start" /\ last_call'.live) =>
          LET horiz_tiles == last_call'.horiz
              vert_tiles  == last_call'.vert
              committed == IF Len(horiz_tiles) > Len(vert_tiles)
                           THEN RunSet(horiz_tiles) ELSE RunSet(vert_tiles)
              other     == IF Len(horiz_tiles) > Len(vert_tiles)
                           THEN RunSet(vert_tiles) ELSE RunSet(horiz_tiles)
          IN  /\ Absorbed(quad.tiles, quad'.tiles) = committed
              /\ \A t \in committed : quad'.tiles[t].parent = last_call'.arg
              /\ \A t \in other : quad'.tiles[t] = quad.tiles[t]
              /\ (horiz_tiles = <<>> /\ vert_tiles = <<>>) => quad'.tiles = quad.tiles]_vars

\* two candidate runs of the same, nonzero, count, the horizontal one of the
\* larger extent: the vertical one was taken
C22_Witness ==
    /\ last_call.op = "start"
    /\ last_call.live
    /\ Len(last_call.horiz) = Len(last_call.vert)
    /\ Len(last_call.horiz) > 0
    /\ SumSize(quad.tiles, last_call.horiz, 1, 1)
           > SumSize(quad.tiles, last_call.vert, 1, 2)
    /\ \A t \in RunSet(last_call.vert) : quad.tiles[t].parent = last_call.arg
    /\ \A t \in RunSet(last_call.horiz) : quad.tiles[t].parent = NoParent

\* what a step of the scan shows of the start examined at address a: it is the
\* start recorded, the tiles absorbed in the step point to it, and it is judged
\* live on the tiles as the earlier merges of the pass left them
Examines(a) ==
    /\ last_call'.arg = a
    /\ \A t \in Absorbed(quad.tiles, quad'.tiles) : quad'.tiles[t].parent = a
    /\ last_call'.live = (quad.tiles[a].parent = NoParent)

(***************************************************************************)
(* C23.  Run scan order, as claimed: one run-merge pass over a layer       *)
(* visits the candidate start tiles in row-major grid order, every cell of *)
(* row y by increasing x before any cell of row y+1, each merge applied    *)
(* before the next candidate is examined.                                  *)
(***************************************************************************)
C23_RowMajorScan ==
    [][last_call'.op = "start" =>
          Examines(Addr(i % hsize[1], i \div hsize[1], hsize[2]))]_vars

(***************************************************************************)
(* C23, amended.  One run-merge pass over a layer visits the candidate     *)
(* start tiles in column-major grid order, every cell of column x by       *)
(* increasing y before any cell of column x+1, each merge applied before   *)
(* the next candidate is examined, so that later candidates see the parent *)
(* marks and sizes left by earlier merges of the same pass.                *)
(***************************************************************************)
C23_ColumnMajorScan ==
    [][last_call'.op = "start" =>
          Examines(Addr(i \div hsize[2], i % hsize[2], hsize[2]))]_vars

\* the second start examined was the cell (0,1) of a grid with more than one
\* column, found absorbed by the merge of the first start
C23_Witness ==
    /\ last_call.op = "start"
    /\ i = 2
    /\ hsize[1] > 1
    /\ hsize[2] > 1
    /\ last_call.arg = Addr(0, 1, hsize[2])
    /\ ~ last_call.live
    /\ quad.tiles[last_call.arg].parent = Addr(0, 0, hsize[2])

\* the extent of a run along the axis (1: x, 2: y) once its first n tiles are
\* added to the start tile
Accumulated(tiles, start, run, n, axis) ==
    start.size[axis] + SumSize(tiles, SubSeq(run, 1, n), 1, axis)

\* the cell d cells past c along the axis
CellPast(c, d, axis) == IF axis = 1 THEN <<c[1] + d, c[2]>> ELSE <<c[1], c[2] + d>>

\* the tile read at `cell` may extend a run of the given accumulated extent
Extends(tiles, start, cell, extent, axis, dims, tile_scale) ==
    /\ cell \in Cells(dims[1], dims[2])
    /\ LET t == tiles[Addr(cell[1], cell[2], dims[2])]
       IN  /\ t.parent = NoParent
           /\ t.color = start.color
           /\ t.height = start.height
           /\ t.size[3 - axis] = start.size[3 - axis]
           /\ (extent + t.size[axis]) * tile_scale <= SizeLimit

\* run is the longest run from the start tile of address a along the axis
LongestRun(tiles, a, run, axis, dims, tile_scale) ==
    LET start == tiles[a]
        c == CellOf(a, dims[2])
    IN  /\ \A k \in 1 .. Len(run) :
               LET extent == Accumulated(tiles, start, run, k - 1, axis)
                   cell == CellPast(c, extent, axis)
               IN  /\ Extends(tiles, start, cell, extent, axis, dims, tile_scale)
                   /\ run[k] = Addr(cell[1], cell[2], dims[2])
        /\ LET extent == Accumulated(tiles, start, run, Len(run), axis)
           IN  ~ Extends(tiles, start, CellPast(c, extent, axis), extent, axis,
                         dims, tile_scale)

(***************************************************************************)
(* C24.  Run extension: the horizontal (vertical) candidate run from a     *)
(* live start tile is the longest sequence of consecutive tiles, each read *)
(* at the cell immediately past the extent accumulated so far to the right *)
(* (below), such that every tile is live, has the start's color and        *)
(* height and the start's size on the orthogonal axis, and the accumulated *)
(* extent times tile_scale stays <= 500; it stops at the first tile that   *)
(* violates one of these or at the grid edge.                              *)
(***************************************************************************)
C24_RunExtension ==
    [][(last_call'.op = "start" /\ last_call'.live) =>
          /\ LongestRun(quad.tiles, last_call'.arg, last_call'.horiz, 1, hsize, scale)
          /\ LongestRun(quad.tiles, last_call'.arg, last_call'.vert, 2, hsize, scale)]_vars

\* a committed horizontal run that took in a tile at least two cells wide
C24_Witness ==
    /\ last_call.op = "start"
    /\ last_call.live
    /\ Len(last_call.horiz) > Len(last_call.vert)
    /\ \E k \in 1 .. Len(last_call.horiz) : quad.tiles[last_call.horiz[k]].size[1] >= 2
    /\ \A k \in 1 .. Len(last_call.horiz) :
           quad.tiles[last_call.horiz[k]].parent = last_call.arg

(***************************************************************************)
(* SpecNew: QuadTree::new on grids whose cells are sampled freely          *)
(* (quad.rs:122-368).                                                      *)
(***************************************************************************)
\* the largest number of cells of a freely sampled grid
MaxCells == 4

\* the samples (height, color) a cell may have
Samples == {0, 3, 6} \X {Blue, Green}

\* gen_full_layers_above_height of the layered mode
LayerThresholds == {2, 4}

InitNew ==
    \E width \in 1 .. MaxCells, height \in 1 .. MaxCells,
       threshold \in LayerThresholds :
        /\ width * height <= MaxCells
        /\ \E grid \in [ Cells(width, height) -> Samples ] :
            /\ hmap = [ c \in Cells(width, height) |-> grid[c][1] ]
            /\ cmap = [ c \in Cells(width, height) |-> grid[c][2] ]
            /\ hsize = <<width, height>>
            /\ csize = <<width, height>>
            /\ options = [ DefaultOptions EXCEPT
                             !.gen_full_layers_above_height = threshold ]
            /\ quad = NoQuad
            /\ pc = "input"
            /\ last_call = [ op |-> "none", arg |-> 0 ]
            /\ count = 0
            /\ scale = 0
            /\ i = 0
            /\ progress_log = <<>>
            /\ result = NoResult

New ==
    /\ pc = "input"
    /\ pc' = "built"
    /\ quad' = QuadTree_new(hmap, cmap, hsize[1], hsize[2],
                            options.gen_full_layers_above_height)
    /\ last_call' = [ op |-> "new", arg |-> options.gen_full_layers_above_height ]
    /\ UNCHANGED << hmap, cmap, hsize, csize, options, count, scale, i,
                    progress_log, result >>

NextNew == New
SpecNew == InitNew /\ [][NextNew]_vars

\* the colors sampled at elevation 0
ZeroColors == { cmap[c] : c \in { d \in DOMAIN hmap : hmap[d] = 0 } }

\* the cell c qualifies for the feature layer of elevation h and color col
Qualifies(c, h, col) ==
    IF col \in ZeroColors
    THEN cmap[c] = col /\ hmap[c] = h
    ELSE hmap[c] >= h

(***************************************************************************)
(* C25.  Feature layer qualification (threshold > 0): in the feature layer *)
(* of the retained elevation h with representative color c, when c is a    *)
(* color sampled at elevation 0 (basin layer) a cell gets height h only if *)
(* its sampled color is c and its sampled elevation is exactly h; else     *)
(* (raised layer) a cell gets height h iff its sampled elevation is >= h;  *)
(* every other cell gets height 0; qualifying cells carry the color c.     *)
(***************************************************************************)
C25_LayerQualification ==
    pc = "built" =>
        \A k \in 1 .. Len(quad.height_layers) :
            LET h == quad.sorted_heights[k + 1]
                col == quad.filtered_heights[h]
            IN  \A a \in DOMAIN quad.height_layers[k] :
                    LET c == CellOf(a, quad.height)
                        t == quad.height_layers[k][a]
                    IN  /\ t.height = (IF Qualifies(c, h, col) THEN h ELSE 0)
                        /\ Qualifies(c, h, col) => t.color = col

\* a basin layer with a qualifying cell, a cell of its elevation and another
\* color that got 0, and a higher cell that got 0
C25_Witness ==
    /\ pc = "built"
    /\ \E k \in 1 .. Len(quad.height_layers) :
           LET h == quad.sorted_heights[k + 1]
               col == quad.filtered_heights[h]
               tiles == quad.height_layers[k]
           IN  /\ col \in ZeroColors
               /\ \E a \in DOMAIN tiles : tiles[a].height = h
               /\ \E a \in DOMAIN tiles :
                      /\ hmap[CellOf(a, quad.height)] = h
                      /\ cmap[CellOf(a, quad.height)] # col
                      /\ tiles[a].height = 0
               /\ \E a \in DOMAIN tiles :
                      /\ hmap[CellOf(a, quad.height)] > h
                      /\ tiles[a].height = 0

\* the quad escalation of gen_opt_heightmap on one layer alone: the levels
\* called while the loop test holds, up to the first that merges nothing
RECURSIVE AloneQuad(_, _, _, _)
AloneQuad(tiles, level, dims, size) ==
    IF ~ quad_loop_test(level, size) THEN tiles
    ELSE LET pass == quad_optimize_tiles(tiles, dims[1], dims[2], Pow2(level),
                                         Pow2(level) * 2)
         IN  IF pass.count = 0 THEN pass.tiles
             ELSE AloneQuad(pass.tiles, level + 1, dims, size)

\* the run-merge loop on one layer alone: the tiles it ends with and the
\* number of passes it took
RECURSIVE AloneLine(_, _, _, _)
AloneLine(tiles, n, dims, size) ==
    LET pass == line_optimize_tiles(tiles, dims[1], dims[2], size)
    IN  IF pass.count = 0 THEN [ tiles |-> pass.tiles, passes |-> n ]
        ELSE AloneLine(pass.tiles, n + 1, dims, size)

\* both loops on the layer of the freshly built tree, alone
Alone(tiles) ==
    AloneLine(IF options.quadtree THEN AloneQuad(tiles, 0, hsize, options.size)
              ELSE tiles,
              1, hsize, options.size)

\* the run-merge loop of gen_opt_heightmap is over
Merged == pc \in {"pre_emit", "emit"} \/ (pc = "done" /\ result.kind = "Ok")

(***************************************************************************)
(* C26.  Layer independence: after the quad escalation and the run-merge   *)
(* loop of gen_opt_heightmap the tiles (size, parent, neighbors) of each   *)
(* layer are those obtained by running the passes on that layer alone: a   *)
(* pass never modifies a tile of another layer, and the extra passes a     *)
(* layer receives because another layer still had merges change nothing    *)
(* in it.                                                                  *)
(***************************************************************************)
C26_LayerIndependence ==
    Merged =>
        /\ Len(Layers(quad)) = Len(Layers(Fresh))
        /\ \A l \in 1 .. Len(Layers(quad)) :
               Layers(quad)[l] = Alone(Layers(Fresh)[l]).tiles

\* a layered tree whose run-merge loop took more passes than one of its
\* layers takes alone, and in which two layers ended with different tiles
C26_Witness ==
    /\ pc = "pre_emit"
    /\ Len(quad.height_layers) >= 1
    /\ \E l \in 1 .. Len(Layers(quad)) : Alone(Layers(Fresh)[l]).passes < i
    /\ \E l \in 1 .. Len(Layers(quad)) :
           Live(Layers(quad)[l]) # Live(quad.tiles)

\* GenOptions with the snap switched off
Unsnapped == [ options EXCEPT !.snap = FALSE ]

\* v is u rounded up to the next multiple of the grid, a multiple staying put
RoundedUp(u, v) == v % SnapGrid = 0 /\ u <= v /\ v - u < SnapGrid

(***************************************************************************)
(* C27.  Grid snapping: with options.snap set, the top position z and the  *)
(* desired thickness used for emission are each the unsnapped value        *)
(* rounded up to the next multiple of 4: a multiple of 4, not smaller than *)
(* the unsnapped value and less than 4 above it, so that a value that is   *)
(* already a multiple of 4 is left as it is.                               *)
(***************************************************************************)
C27_GridSnapping ==
    (pc = "bricks" /\ options.snap /\ ~ Skipped(BrickTile)) =>
        /\ RoundedUp(tile_z(BrickTile, Unsnapped), tile_z(BrickTile, options))
        /\ RoundedUp(tile_desired_height(BrickTile, Unsnapped, last_call.arg),
                     tile_desired_height(BrickTile, options, last_call.arg))

(***************************************************************************)
(* C28.  Layered thickness correction does not underflow: with a nonzero   *)
(* vertical offset, for every tile, scale, snap setting and style, each    *)
(* emitted brick's vertical size `segment thickness - 4` is computed       *)
(* without unsigned underflow and is positive: every segment thickness     *)
(* that reaches the correction is greater than 4.                          *)
(***************************************************************************)
C28_CorrectionNoUnderflow ==
    (pc = "bricks" /\ last_call.arg # 0) =>
        \A k \in 1 .. Len(result.bricks) :
            /\ SegmentThickness(result.bricks[k]) > PosAdjust
            /\ result.bricks[k].size[3] > 0

\* what a step may do to the tile t, which it leaves as u, of a layer whose
\* tiles it takes from `before` to `after`
MonotoneStep(t, u, before, after) ==
    /\ t.parent # NoParent => (u.parent # NoParent /\ u.size = t.size)
    /\ u.size[1] >= t.size[1]
    /\ u.size[2] >= t.size[2]
    /\ u.size # t.size => (t.parent = NoParent /\ Absorbed(before, after) # {})
    /\ u.center = t.center
    /\ u.color = t.color
    /\ u.height = t.height

(***************************************************************************)
(* C29.  Merge monotonicity: over any sequence of quad and run merge       *)
(* passes a tile whose parent has been set never becomes live again and    *)
(* its size never changes afterwards; a live tile's size never shrinks in  *)
(* either dimension and changes only in a step that absorbs other tiles;   *)
(* center, color and height of a tile are never modified by a merge pass.  *)
(***************************************************************************)
C29_MergeMonotone ==
    [][\A l \in 1 .. Len(Layers(quad)) :
           /\ DOMAIN Layers(quad')[l] = DOMAIN Layers(quad)[l]
           /\ \A a \in DOMAIN Layers(quad)[l] :
                  MonotoneStep(Layers(quad)[l][a], Layers(quad')[l][a],
                               Layers(quad)[l], Layers(quad')[l])]_vars

\* after a quad pass and a run pass: a live tile of extent (4,2), which grew
\* in both kinds of pass, and absorbed tiles
C29_Witness ==
    /\ last_call.op = "line_optimize"
    /\ \E a \in Live(quad.tiles) : quad.tiles[a].size = <<4, 2>>
    /\ \E a \in DOMAIN quad.tiles :
           quad.tiles[a].parent # NoParent /\ quad.tiles[a].size = <<2, 2>>

\* gen_opt_heightmap stands in its quad escalation: no run merge was made yet
InQuadPhase == pc \in {"quad_test", "quad_level", "quad_done", "panic"}

\* t is a square of side 2^k within the size limit, anchored at multiples of 2^k
SquareOfLevel(t, k) ==
    /\ t.size = <<Pow2(k), Pow2(k)>>
    /\ options.size <= (SizeLimit - 1) \div Pow2(k)    \* 2^k * size < 500
    /\ t.center[1] % Pow2(k) = 0
    /\ t.center[2] % Pow2(k) = 0

(***************************************************************************)
(* C30.  Quad-phase shape invariant: in every state of the quad escalation *)
(* of gen_opt_heightmap, before any run merge, every live tile is a square *)
(* of side 2^k for some k >= 0 with 2^k * options.size < 500, anchored at  *)
(* a cell whose x and y are multiples of 2^k; and a level is only called   *)
(* with 2^level <= min(width, height), so that `width - space` and         *)
(* `height - space` never underflow.                                       *)
(***************************************************************************)
C30_QuadPhaseShape ==
    InQuadPhase =>
        /\ \A l \in 1 .. Len(Layers(quad)) : \A a \in Live(Layers(quad)[l]) :
               \E k \in 0 .. MaxLevel + 1 : SquareOfLevel(Layers(quad)[l][a], k)
        /\ pc = "quad_level" => Pow2(scale) <= Min(hsize[1], hsize[2])
        /\ pc # "panic"

=============================================================================
